---- MODULE Spec2Model ----
(***************************************************************************)
(* A model of pytrends/research.py: the daily chunk loops of               *)
(* _getRawDailyData and getDailyDataOnce, the retrying fetch _fetchData,   *)
(* the dataset writers buildDatabase and buildMonthlyDatabase, and the     *)
(* scaling pipelines of getDailyDataOnce and getDailyDataFromDB.           *)
(*                                                                         *)
(* The specifications share the variables:                                 *)
(*   SpecChunk   the chunk loops, over start/stop years and "today";       *)
(*   Spec        the dataset writers, step by step, with a service that    *)
(*               may answer, rate-limit or fail, and a clock that ticks;   *)
(*   SpecScale   the scaling of getDailyDataOnce over small series;        *)
(*   SpecRead    the reads getDailyDataFromDB and getMonthlyDataFromDB     *)
(*               over small workbooks;                                     *)
(*   SpecFrames  the frames of SpecScale and of SpecRead together;         *)
(*   SpecLive    the dataset writers with a service that rate-limits a     *)
(*               query finitely often and raises nothing else, and calls   *)
(*               that go on running.                                       *)
(***************************************************************************)
EXTENDS Integers, Sequences, FiniteSets, TLC

VARIABLES
    today,        \* date.today(): the calendar day of the clock
    fn,           \* the function whose chunk loop runs (SpecChunk)
    hiprecision,  \* the hiprecision argument
    start_date,   \* local start_date
    stop_date,    \* local stop_date
    current,      \* local current of the chunk loop
    results,      \* the chunks fetched so far, in insertion order
    pc,           \* position of the running call
    file,         \* the persisted workbook {dbpath}/{cat}_{word}_{geo}.xlsx
    op,           \* the writer called last (running or ended)
    outcome,      \* how that call ended; "running" until it does
    as_of,        \* the day on which that call evaluated its guard
    prev,         \* how the call before ended, if it was a buildDatabase
                  \* that returned normally earlier on the day as_of
    file0,        \* the workbook as it was when that call began
    data_m,       \* local data_m
    data_d,       \* local data_d
    monthly,      \* local monthly, once renamed
    timeframe,    \* the timeframe of the running _fetchData
    attempts,     \* local attempts of the running _fetchData
    ret,          \* where the running _fetchData returns to
    ev,           \* the last service response of the call and the sleep after it
    fetches,      \* the number of _fetchData calls the call has begun
    sessions,     \* the number of TrendReq sessions the call has created
    daily,        \* local daily of getDailyDataOnce: the concatenated chunks
    uniformdata,  \* the uniformdata argument of getDailyDataFromDB
    complete      \* the frame getDailyDataOnce / getDailyDataFromDB returns

chunkvars == <<today, fn, hiprecision, start_date, stop_date, current, results, pc>>
dbvars == <<file, op, outcome, as_of, prev, file0, data_m, data_d, monthly,
            timeframe, attempts, ret, ev, fetches, sessions>>
engvars == <<daily, uniformdata, complete>>
vars == <<chunkvars, dbvars, engvars>>

-----------------------------------------------------------------------------
(* Bounds.                                                                 *)

\* the first year of the modelled calendar (2004 is a leap year)
FirstYear == 2004
\* how many years the modelled calendar spans
NumYears == 2

Years == FirstYear .. (FirstYear + NumYears - 1)

-----------------------------------------------------------------------------
(* Dates: <<year, month, day>>.                                            *)

isleap(y) == (y % 4 = 0 /\ y % 100 # 0) \/ y % 400 = 0

\* calendar.monthrange(y, m)[1]: the number of days of the month
monthrange(y, m) ==
    IF m = 2 THEN (IF isleap(y) THEN 29 ELSE 28)
    ELSE IF m \in {4, 6, 9, 11} THEN 30 ELSE 31

DateKey(d) == d[1] * 10000 + d[2] * 100 + d[3]
DateLT(a, b) == DateKey(a) < DateKey(b)
DateLE(a, b) == DateKey(a) <= DateKey(b)

\* min([a, b]) on dates
MinDate(a, b) == IF DateLE(a, b) THEN a ELSE b

\* d + timedelta(days=1)
PlusOneDay(d) ==
    IF d[3] < monthrange(d[1], d[2]) THEN <<d[1], d[2], d[3] + 1>>
    ELSE IF d[2] < 12 THEN <<d[1], d[2] + 1, 1>>
    ELSE <<d[1] + 1, 1, 1>>

\* d + relativedelta(months=n): the month moves, the day is clipped to the
\* length of the month reached
PlusMonths(d, n) ==
    LET total == (d[2] - 1) + n
        y == d[1] + (total \div 12)
        m == (total % 12) + 1
        len == monthrange(y, m)
    IN <<y, m, IF d[3] < len THEN d[3] ELSE len>>

\* date(y, m, monthrange(y, m)[1])
LastDateOfMonth(d) == <<d[1], d[2], monthrange(d[1], d[2])>>

\* date.toordinal(): the number of the day, 0001-01-01 being day 1
RECURSIVE DaysBeforeMonth(_, _)
DaysBeforeMonth(y, m) ==
    IF m = 1 THEN 0 ELSE DaysBeforeMonth(y, m - 1) + monthrange(y, m - 1)

toordinal(d) ==
    LET y == d[1] - 1
    IN 365 * y + (y \div 4) - (y \div 100) + (y \div 400)
       + DaysBeforeMonth(d[1], d[2]) + d[3]

\* getTimeframe(start, stop): "YYYY-MM-DD YYYY-MM-DD"
getTimeframe(start, stop) == <<start, stop>>

\* the days of the modelled calendar, one year beyond the years of the inputs
Calendar ==
    {<<y, m, d>> : y \in FirstYear .. (FirstYear + NumYears), m \in 1..12, d \in 1..31}

ValidDates == {d \in Calendar : d[3] <= monthrange(d[1], d[2])}

\* the values of "today" the chunk loops are run on: around every month
\* boundary and inside every month
ClockDays ==
    {d \in ValidDates :
        /\ d[1] \in Years
        /\ d[3] \in {1, 2, 15, monthrange(d[1], d[2])}}

-----------------------------------------------------------------------------
(* The workbook and the state of a writer call.                            *)

NoDate == <<0, 0, 0>>

\* isfile(...) is false
NoFile == [exists |-> FALSE, monthly |-> <<>>, has_daily |-> FALSE, daily |-> <<>>]

NoEvent == [resp |-> "none", slept |-> "none", secs |-> 0]

\* no writer has been called
DbIdle ==
    /\ file = NoFile
    /\ op = "none"
    /\ outcome = "none"
    /\ as_of = NoDate
    /\ prev = "none"
    /\ file0 = NoFile
    /\ timeframe = <<>>
    /\ attempts = 0
    /\ ret = "none"
    /\ ev = NoEvent
    /\ fetches = 0
    /\ sessions = 0

\* no frame has been read, fetched or scaled
EngIdle ==
    /\ data_m = <<>>
    /\ data_d = <<>>
    /\ monthly = <<>>
    /\ daily = <<>>
    /\ uniformdata = TRUE
    /\ complete = <<>>

-----------------------------------------------------------------------------
(* The chunk loops (SpecChunk).                                            *)

\* a chunk end that is not clamped to stop_date
RawChunkEnd_Unclamped(cur, stop, hip) ==
    IF ~hip THEN PlusMonths(LastDateOfMonth(cur), 7) ELSE LastDateOfMonth(cur)

\* a low-precision chunk of 9 months
RawChunkEnd_NineMonths(cur, stop, hip) ==
    MinDate(stop, IF ~hip THEN PlusMonths(LastDateOfMonth(cur), 8)
                  ELSE LastDateOfMonth(cur))

\* lines 65-74: the end of the chunk of _getRawDailyData that starts at cur
RawChunkEnd(cur, stop, hip) ==
    LET lastOfMonth == LastDateOfMonth(cur)
        lastDateOfDailyChunk ==
            IF ~hip THEN PlusMonths(lastOfMonth, 7) ELSE lastOfMonth
    IN MinDate(stop, lastDateOfDailyChunk)

\* line 150: the end of the chunk of getDailyDataOnce that starts at cur
OnceChunkEnd(cur) == LastDateOfMonth(cur)

\* lines 64 and 149: while current < stop_date
LoopGuard(cur, stop) == DateLT(cur, stop)

\* lines 63-81 as a function: the timeframes _getRawDailyData queries from
\* cur on
RECURSIVE RawChunks(_, _, _)
RawChunks(cur, stop, hip) ==
    IF ~LoopGuard(cur, stop) THEN <<>>
    ELSE LET lastDateOfDailyChunk == RawChunkEnd(cur, stop, hip)
         IN <<getTimeframe(cur, lastDateOfDailyChunk)>>
            \o RawChunks(PlusOneDay(lastDateOfDailyChunk), stop, hip)

\* lines 50-51, 131-132
StopDate(stop_year, now) == MinDate(<<stop_year, 12, 31>>, now)

InitChunk ==
    /\ today \in ClockDays
    /\ fn \in {"_getRawDailyData", "getDailyDataOnce"}
    /\ hiprecision \in (IF fn = "_getRawDailyData" THEN BOOLEAN ELSE {FALSE})
    /\ \E start_year \in Years, stop_year \in Years :
          /\ start_date = <<start_year, 1, 1>>
          /\ stop_date = StopDate(stop_year, today)
    /\ current = start_date
    /\ results = <<>>
    /\ pc = "loop"
    /\ DbIdle
    /\ EngIdle

\* one iteration of the loop of _getRawDailyData (lines 64-81)
RawDailyChunk ==
    /\ pc = "loop"
    /\ fn = "_getRawDailyData"
    /\ LoopGuard(current, stop_date)
    /\ LET lastDateOfDailyChunk == RawChunkEnd(current, stop_date, hiprecision)
       IN /\ results' = Append(results, getTimeframe(current, lastDateOfDailyChunk))
          /\ current' = PlusOneDay(lastDateOfDailyChunk)
    /\ UNCHANGED <<today, fn, hiprecision, start_date, stop_date, pc, dbvars, engvars>>

\* one iteration of the loop of getDailyDataOnce (lines 149-156)
DailyOnceChunk ==
    /\ pc = "loop"
    /\ fn = "getDailyDataOnce"
    /\ LoopGuard(current, stop_date)
    /\ LET lastDateOfMonth == OnceChunkEnd(current)
       IN /\ results' = Append(results, getTimeframe(current, lastDateOfMonth))
          /\ current' = PlusOneDay(lastDateOfMonth)
    /\ UNCHANGED <<today, fn, hiprecision, start_date, stop_date, pc, dbvars, engvars>>

\* the loop condition fails: the loop is left
ChunkLoopExit ==
    /\ pc = "loop"
    /\ ~LoopGuard(current, stop_date)
    /\ pc' = "done"
    /\ UNCHANGED <<today, fn, hiprecision, start_date, stop_date, current, results, dbvars, engvars>>

NextChunk == RawDailyChunk \/ DailyOnceChunk \/ ChunkLoopExit

SpecChunk == InitChunk /\ [][NextChunk]_vars

-----------------------------------------------------------------------------
(* C1                                                                      *)

\* the days a sequence of chunks covers
DaysOf(chunk) == {d \in ValidDates : DateLE(chunk[1], d) /\ DateLE(d, chunk[2])}
Covered == UNION {DaysOf(results[i]) : i \in 1..Len(results)}
Requested == {d \in ValidDates : DateLE(start_date, d) /\ DateLE(d, stop_date)}

\* C1: when the chunk loop has ended on a range with start <= stop, the
\* chunks issued are pairwise disjoint, strictly increasing, each with
\* start <= end, none ends after today, and together they cover exactly the
\* days start .. min(stop, today).
C1_ChunksPartitionRange ==
    (pc = "done" /\ DateLE(start_date, stop_date)) =>
        /\ \A i \in 1..Len(results) :
              /\ DateLE(results[i][1], results[i][2])
              /\ DateLE(results[i][2], today)
        /\ \A i \in 1..Len(results), j \in 1..Len(results) :
              i < j => DateLT(results[i][2], results[j][1])
        /\ Covered = Requested

-----------------------------------------------------------------------------
(* The dataset writers (Spec).                                             *)
(*                                                                         *)
(* A column of a sheet is [label, frames]: the fetch-date label it was     *)
(* renamed to (word + date.today().strftime("_%m_%d_%Y")) and the          *)
(* timeframes whose data it holds.  A sheet is the sequence of its         *)
(* columns; its date index is the union of the dates of its columns.       *)

\* the first day of the clock
FirstDay == <<FirstYear, 8, 31>>
\* how many times the clock passes midnight
MaxTicks == 2
\* how many times one _fetchData is rate-limited at most
MaxAttempts == 2

RECURSIVE PlusDays(_, _)
PlusDays(d, n) == IF n = 0 THEN d ELSE PlusDays(PlusOneDay(d), n - 1)

LastDay == PlusDays(FirstDay, MaxTicks)

\* the exceptions the service raises: the rate-limit ResponseError and
\* any other one
Errors == {"ResponseError", "fatal"}

Labels(sheet) == {sheet[i].label : i \in 1..Len(sheet)}

\* a guard that never finds the label (a label formatted another way)
HasLabel_Never(sheet, day) == FALSE

\* lines 187, 341: word + today's label in set(data_m.columns)
HasLabel(sheet, day) == day \in Labels(sheet)

\* a join that accepts a column name twice (as pd.concat(axis=1) does)
JoinOverlaps_Never(sheet, col) == FALSE

\* DataFrame.join refuses a column whose name the frame already has
\* ("columns overlap but no suffix specified")
JoinOverlaps(sheet, col) == col.label \in Labels(sheet)

\* lines 205, 208, 358: sheet.join(col, how='outer'): the columns of the
\* sheet as they are, then the new one
OuterJoin(sheet, col) == Append(sheet, col)

\* a bare except: every exception is retried
Caught_Any(err) == TRUE

\* line 28: the exceptions the try of _fetchData catches
Caught(err) == err = "ResponseError"

\* the frame of the call is gone
DropLocals ==
    /\ hiprecision' = FALSE
    /\ start_date' = NoDate
    /\ stop_date' = NoDate
    /\ current' = NoDate
    /\ results' = <<>>
    /\ data_m' = <<>>
    /\ data_d' = <<>>
    /\ monthly' = <<>>
    /\ timeframe' = <<>>
    /\ attempts' = 0
    /\ ret' = "none"

\* the call returns or raises: res is "noop", "acquired" or the exception
EndCall(res) ==
    /\ pc' = "idle"
    /\ outcome' = res
    /\ DropLocals

Init ==
    /\ today = FirstDay
    /\ fn = "_getRawDailyData"
    /\ hiprecision = FALSE
    /\ start_date = NoDate
    /\ stop_date = NoDate
    /\ current = NoDate
    /\ results = <<>>
    /\ pc = "idle"
    /\ DbIdle
    /\ EngIdle

\* midnight passes; the clock is read by date.today() only
Tick ==
    /\ DateLT(today, LastDay)
    /\ today' = PlusOneDay(today)
    /\ UNCHANGED <<fn, hiprecision, start_date, stop_date, current, results, pc, dbvars, engvars>>

\* what a call records when it begins
BeginCall(name) ==
    /\ op' = name
    /\ as_of' = today
    /\ prev' = IF /\ op = "buildDatabase"
                  /\ outcome \in {"noop", "acquired"}
                  /\ as_of = today
               THEN outcome ELSE "none"
    /\ file0' = file
    /\ ev' = NoEvent

\* buildDatabase, lines 180-201, up to the first build_payload
CallBuildDatabase(hip) ==
    /\ pc = "idle"
    /\ UNCHANGED engvars
    /\ BeginCall("buildDatabase")
    /\ UNCHANGED <<today, fn, file>>
    /\ IF file.exists /\ ~file.has_daily
       THEN \* line 182: read_excel finds no sheet named 'daily'
            /\ EndCall("ValueError")
            /\ fetches' = 0
            /\ sessions' = 0
       ELSE IF HasLabel(file.monthly, today)
       THEN \* lines 187-190
            /\ EndCall("noop")
            /\ fetches' = 0
            /\ sessions' = 0
       ELSE \* lines 192-201
            /\ pc' = "build_payload"
            /\ outcome' = "running"
            /\ hiprecision' = hip
            /\ data_m' = file.monthly
            /\ data_d' = file.daily
            /\ start_date' = <<2004, 1, 1>>
            /\ stop_date' = today
            /\ sessions' = 1
            /\ fetches' = 1
            /\ timeframe' = getTimeframe(<<2004, 1, 1>>, today)
            /\ attempts' = 0
            /\ ret' = "monthly"
            /\ UNCHANGED <<current, results, monthly>>

\* buildMonthlyDatabase, lines 335-355, up to the first build_payload
CallBuildMonthlyDatabase ==
    /\ pc = "idle"
    /\ UNCHANGED engvars
    /\ BeginCall("buildMonthlyDatabase")
    /\ UNCHANGED <<today, fn, file>>
    /\ IF HasLabel(file.monthly, today)
       THEN \* lines 341-344
            /\ EndCall("noop")
            /\ fetches' = 0
            /\ sessions' = 0
       ELSE \* lines 346-355
            /\ pc' = "build_payload"
            /\ outcome' = "running"
            /\ data_m' = file.monthly
            /\ start_date' = <<2004, 1, 1>>
            /\ stop_date' = today
            /\ sessions' = 1
            /\ fetches' = 1
            /\ timeframe' = getTimeframe(<<2004, 1, 1>>, today)
            /\ attempts' = 0
            /\ ret' = "monthly"
            /\ UNCHANGED <<hiprecision, data_d, current, results, monthly>>

\* _fetchData line 27, the else of line 33: build_payload succeeds
BuildPayloadOk ==
    /\ pc = "build_payload"
    /\ UNCHANGED engvars
    /\ ev' = [resp |-> "ok", slept |-> "none", secs |-> 0]
    /\ pc' = "interest_over_time"
    /\ UNCHANGED <<today, fn, hiprecision, start_date, stop_date, current, results,
                   file, op, outcome, as_of, prev, file0, data_m, data_d, monthly,
                   timeframe, attempts, ret, fetches, sessions>>

\* _fetchData lines 27-32: build_payload raises err
BuildPayloadRaises(err) ==
    /\ pc = "build_payload"
    /\ UNCHANGED engvars
    /\ IF Caught(err)
       THEN \* lines 28-32: sleep and go round the loop again
            /\ attempts < MaxAttempts
            /\ ev' = [resp |-> err, slept |-> "backoff", secs |-> 60 + 5 * attempts]
            /\ attempts' = attempts + 1
            /\ UNCHANGED <<hiprecision, start_date, stop_date, current, results, pc,
                           outcome, data_m, data_d, monthly, timeframe, ret>>
       ELSE \* not caught: the call ends with err
            /\ ev' = [resp |-> err, slept |-> "none", secs |-> 0]
            /\ EndCall(err)
    /\ UNCHANGED <<today, fn, file, op, as_of, prev, file0, fetches, sessions>>

\* _fetchData line 35: interest_over_time returns the frame
InterestOverTimeOk ==
    /\ pc = "interest_over_time"
    /\ UNCHANGED engvars
    /\ ev' = [resp |-> "ok", slept |-> "none", secs |-> 0]
    /\ pc' = IF ret = "monthly" THEN "got_monthly" ELSE "got_chunk"
    /\ UNCHANGED <<today, fn, hiprecision, start_date, stop_date, current, results,
                   file, op, outcome, as_of, prev, file0, data_m, data_d, monthly,
                   timeframe, attempts, ret, fetches, sessions>>

\* _fetchData line 35: interest_over_time raises err, outside the try
InterestOverTimeRaises(err) ==
    /\ pc = "interest_over_time"
    /\ UNCHANGED engvars
    /\ ev' = [resp |-> err, slept |-> "none", secs |-> 0]
    /\ EndCall(err)
    /\ UNCHANGED <<today, fn, file, op, as_of, prev, file0, fetches, sessions>>

\* lines 201-202, 355-356: the monthly frame is renamed to today's label
RenameMonthly ==
    /\ pc = "got_monthly"
    /\ UNCHANGED engvars
    /\ monthly' = <<[label |-> today, frames |-> <<timeframe>>]>>
    /\ pc' = IF op = "buildDatabase" THEN "call_raw" ELSE "persist"
    /\ UNCHANGED <<today, fn, hiprecision, start_date, stop_date, current, results,
                   file, op, outcome, as_of, prev, file0, data_m, data_d,
                   timeframe, attempts, ret, ev, fetches, sessions>>

\* line 203 and lines 50-63: _getRawDailyData(word, 2004, stop_date.year, ...)
EnterRawDailyData ==
    /\ pc = "call_raw"
    /\ UNCHANGED engvars
    /\ start_date' = <<2004, 1, 1>>
    /\ stop_date' = StopDate(stop_date[1], today)
    /\ sessions' = sessions + 1
    /\ results' = <<>>
    /\ current' = <<2004, 1, 1>>
    /\ pc' = "loop"
    /\ UNCHANGED <<today, fn, hiprecision, file, op, outcome, as_of, prev, file0,
                   data_m, data_d, monthly, timeframe, attempts, ret, ev, fetches>>

\* lines 64-79: the loop goes on and the chunk's _fetchData begins
FetchChunk ==
    /\ pc = "loop"
    /\ UNCHANGED engvars
    /\ op = "buildDatabase"
    /\ LoopGuard(current, stop_date)
    /\ timeframe' = getTimeframe(current, RawChunkEnd(current, stop_date, hiprecision))
    /\ attempts' = 0
    /\ ret' = "chunk"
    /\ fetches' = fetches + 1
    /\ pc' = "build_payload"
    /\ UNCHANGED <<today, fn, hiprecision, start_date, stop_date, current, results,
                   file, op, outcome, as_of, prev, file0, data_m, data_d, monthly,
                   ev, sessions>>

\* lines 79-81: the chunk is stored, current moves on, the pacing sleep
StoreChunk ==
    /\ pc = "got_chunk"
    /\ UNCHANGED engvars
    /\ results' = Append(results, timeframe)
    /\ current' = PlusOneDay(timeframe[2])
    /\ ev' = [ev EXCEPT !.slept = "pace"]
    /\ pc' = "loop"
    /\ UNCHANGED <<today, fn, hiprecision, start_date, stop_date,
                   file, op, outcome, as_of, prev, file0, data_m, data_d, monthly,
                   timeframe, attempts, ret, fetches, sessions>>

\* lines 64, 83-85: the loop is left and the chunks are concatenated;
\* pd.concat of no frame raises ValueError
LeaveLoop ==
    /\ pc = "loop"
    /\ UNCHANGED engvars
    /\ op = "buildDatabase"
    /\ ~LoopGuard(current, stop_date)
    /\ IF results = <<>>
       THEN EndCall("ValueError")
       ELSE /\ pc' = "persist"
            /\ UNCHANGED <<hiprecision, start_date, stop_date, current, results,
                           outcome, data_m, data_d, monthly, timeframe, attempts, ret>>
    /\ UNCHANGED <<today, fn, file, op, as_of, prev, file0, ev, fetches, sessions>>

\* buildDatabase lines 204-215.  The workbook is rewritten when the
\* ExcelWriter is closed, which leaving the with block does, also by an
\* exception: the sheets written until then are what the file then holds.
PersistDatabase ==
    /\ pc = "persist"
    /\ UNCHANGED engvars
    /\ op = "buildDatabase"
    /\ LET renamed == [label |-> today, frames |-> results]
       IN IF JoinOverlaps(data_m, monthly[1])
          THEN \* line 205 raises before the writer is opened
               /\ file' = file
               /\ EndCall("ValueError")
          ELSE IF JoinOverlaps(data_d, renamed)
          THEN \* line 208 raises inside the with block
               /\ file' = [exists |-> TRUE,
                           monthly |-> OuterJoin(data_m, monthly[1]),
                           has_daily |-> FALSE, daily |-> <<>>]
               /\ EndCall("ValueError")
          ELSE /\ file' = [exists |-> TRUE,
                           monthly |-> OuterJoin(data_m, monthly[1]),
                           has_daily |-> TRUE,
                           daily |-> OuterJoin(data_d, renamed)]
               /\ EndCall("acquired")
    /\ UNCHANGED <<today, fn, op, as_of, prev, file0, ev, fetches, sessions>>

\* buildMonthlyDatabase lines 358-366: the workbook is rewritten with the
\* monthly sheet alone
PersistMonthly ==
    /\ pc = "persist"
    /\ UNCHANGED engvars
    /\ op = "buildMonthlyDatabase"
    /\ IF JoinOverlaps(data_m, monthly[1])
       THEN /\ file' = file
            /\ EndCall("ValueError")
       ELSE /\ file' = [exists |-> TRUE,
                        monthly |-> OuterJoin(data_m, monthly[1]),
                        has_daily |-> FALSE, daily |-> <<>>]
            /\ EndCall("acquired")
    /\ UNCHANGED <<today, fn, op, as_of, prev, file0, ev, fetches, sessions>>

Next ==
    \/ Tick
    \/ \E hip \in BOOLEAN : CallBuildDatabase(hip)
    \/ CallBuildMonthlyDatabase
    \/ BuildPayloadOk
    \/ \E err \in Errors : BuildPayloadRaises(err)
    \/ InterestOverTimeOk
    \/ \E err \in Errors : InterestOverTimeRaises(err)
    \/ RenameMonthly
    \/ EnterRawDailyData
    \/ FetchChunk
    \/ StoreChunk
    \/ LeaveLoop
    \/ PersistDatabase
    \/ PersistMonthly

Spec == Init /\ [][Next]_vars

-----------------------------------------------------------------------------
(* C2 .. C6                                                                *)

\* C2: a buildDatabase call that begins on the day on which the call before
\* it, a buildDatabase too, began and returned normally, is a no-op: it
\* returns without a fetch and without a client session, and the workbook
\* is what it was.
C2_SecondCallSameDayIsNoop ==
    (op = "buildDatabase" /\ prev # "none") =>
        /\ pc = "idle"
        /\ outcome = "noop"
        /\ fetches = 0
        /\ sessions = 0
        /\ file = file0

\* two buildDatabase calls on one day, the first of which acquired: the
\* acquisition of the day is that one
C2_Witness ==
    /\ op = "buildDatabase"
    /\ prev = "acquired"
    /\ outcome = "noop"
    /\ file.has_daily
    /\ HasLabel(file.daily, today)

Kept(old, new) == \A i \in 1..Len(old) : \E j \in 1..Len(new) : new[j] = old[i]

\* C3: a call that ended normally left in the workbook every column that
\* was there when it began, in the monthly sheet and in the daily sheet.
C3_ColumnsNeverRemoved ==
    outcome \in {"noop", "acquired"} =>
        /\ Kept(file0.monthly, file.monthly)
        /\ file0.has_daily => (file.has_daily /\ Kept(file0.daily, file.daily))

\* C4: no writer call, hence no _fetchData, ends by raising the rate-limit
\* ResponseError.
C4_RetryableNeverSurfaced == outcome # "ResponseError"

\* C5: when the service has answered a query with a non-retryable error,
\* the call has ended with that error, no sleep and no query followed it,
\* and the workbook is what it was when the call began.
C5_FatalAbortsUnchanged ==
    ev.resp = "fatal" =>
        /\ pc = "idle"
        /\ outcome = "fatal"
        /\ ev.slept = "none"
        /\ file = file0

\* a buildDatabase on an existing dataset fails on a daily chunk query
C5_Witness ==
    /\ ev.resp = "fatal"
    /\ op = "buildDatabase"
    /\ fetches >= 2
    /\ file.exists
    /\ file = file0

NoTwoShareLabel(sheet) ==
    \A i \in 1..Len(sheet), j \in 1..Len(sheet) :
        i # j => sheet[i].label # sheet[j].label

\* C6: no two columns of the monthly sheet and no two columns of the daily
\* sheet of the workbook have the same fetch-date label.
C6_NoDuplicateLabels ==
    /\ NoTwoShareLabel(file.monthly)
    /\ NoTwoShareLabel(file.daily)

\* a workbook with several pulls in both sheets
C6_Witness ==
    /\ Len(file.monthly) >= 2
    /\ Len(file.daily) >= 2

-----------------------------------------------------------------------------
(* Values and frames of the scaling pipelines.                             *)
(*                                                                         *)
(* A value is <<n, d>>: the non-negative rational n/d in lowest terms when *)
(* d > 0, NaN (a missing cell) when <<0, 0>>, +inf when <<1, 0>>; the      *)
(* operations are those of float64 on them, rounding apart.  A series is a *)
(* function from its date index to values.                                 *)

NaN == <<0, 0>>
Inf == <<1, 0>>

RECURSIVE GCD(_, _)
GCD(a, b) == IF b = 0 THEN a ELSE GCD(b, a % b)

Q(n, d) == LET g == GCD(n, d) IN <<n \div g, d \div g>>
Num(k) == <<k, 1>>

\* a / b of two float64 values that are not negative
Div(a, b) ==
    IF a = NaN \/ b = NaN THEN NaN
    ELSE IF b = Inf THEN (IF a = Inf THEN NaN ELSE Num(0))
    ELSE IF a = Inf THEN Inf
    ELSE IF b[1] = 0 THEN (IF a[1] = 0 THEN NaN ELSE Inf)
    ELSE Q(a[1] * b[2], a[2] * b[1])

\* a * b
Mul(a, b) ==
    IF a = NaN \/ b = NaN THEN NaN
    ELSE IF a = Inf THEN (IF b # Inf /\ b[1] = 0 THEN NaN ELSE Inf)
    ELSE IF b = Inf THEN (IF a[1] = 0 THEN NaN ELSE Inf)
    ELSE Q(a[1] * b[1], a[2] * b[2])

\* a + b, neither missing
Plus(a, b) ==
    IF a = Inf \/ b = Inf THEN Inf
    ELSE Q(a[1] * b[2] + b[1] * a[2], a[2] * b[2])

\* a < b, neither missing
Less(a, b) == a[1] * b[2] < b[1] * a[2]

MonthStart(d) == <<d[1], d[2], 1>>
SameMonth(d, e) == d[1] = e[1] /\ d[2] = e[2]

RECURSIVE SumOver(_, _)
SumOver(s, dates) ==
    IF dates = {} THEN Num(0)
    ELSE LET d == CHOOSE x \in dates : TRUE
         IN Plus(s[d], SumOver(s, dates \ {d}))

\* Series.mean() over the rows `dates` of s: missing cells are skipped, and
\* the mean of no cell is missing
MeanOver(s, dates) ==
    LET present == {d \in dates : s[d] # NaN}
    IN IF present = {} THEN NaN
       ELSE Div(SumOver(s, present), Num(Cardinality(present)))

\* lines 159-160, 255-256: s.resample('M').mean(), its index cut to the
\* first day of the month: one row per month from the first month of s to
\* its last, the mean of the rows of s in the month
ResampleMean(s) ==
    LET idx == DOMAIN s
        months == {m \in {<<d[1], k, 1>> : d \in idx, k \in 1..12} :
                     /\ \E d \in idx : DateLE(MonthStart(d), m)
                     /\ \E d \in idx : DateLE(m, d)}
    IN [m \in months |-> MeanOver(s, {d \in idx : SameMonth(d, m)})]

\* lines 161, 163, 257, 259: a column set from, or left-joined with, a frame
\* of another index: the rows of idx, missing where s has no such row
Reindex(s, idx) == [d \in idx |-> IF d \in DOMAIN s THEN s[d] ELSE NaN]

\* a forward fill that leaves the column as it is
ffill_Not(s) == s

\* lines 162, 166, 258, 262: Series.ffill(): a missing cell takes the last
\* value that is not missing in a row before it
ffill(s) ==
    [d \in DOMAIN s |->
        LET before == {e \in DOMAIN s : DateLE(e, d) /\ s[e] # NaN}
        IN IF before = {} THEN NaN
           ELSE s[CHOOSE e \in before : \A x \in before : DateLE(x, e)]]

\* lines 159-168 and 255-264: the daily series scaled by the monthly one
ScaleByMonthly(unscaled, baseline) ==
    LET idx == DOMAIN unscaled
        dailyaverage == ResampleMean(unscaled)
        avg == ffill(Reindex(dailyaverage, idx))
        base == ffill(Reindex(baseline, idx))
    IN [d \in idx |->
          LET scale == Div(base[d], avg[d])
          IN [unscaled |-> unscaled[d],
              monthly |-> base[d],
              scale |-> scale,
              scaled |-> Mul(unscaled[d], scale)]]

-----------------------------------------------------------------------------
(* The scaling of getDailyDataOnce (SpecScale).                            *)

\* how many months, from January of FirstYear, the frames span
EngMonths == 2
\* the days of each month the frames may have a row for
EngDays == {1, 10}
\* the daily values the service returns (0..100)
RawValues == {0, 5, 10}
\* the monthly values the service returns
BaseValues == {10, 20}

EngDates == {<<FirstYear, m, d>> : m \in 1..EngMonths, d \in EngDays}
EngMonthStarts == {<<FirstYear, m, 1>> : m \in 1..EngMonths}

\* the series over the dates of `dates` with values of `values`: every
\* index, every value
SeriesOver(dates, values) ==
    UNION {[idx -> {Num(v) : v \in values}] : idx \in SUBSET dates}

\* lines 142-158: the monthly frame and the concatenated daily chunks as
\* the service returned them
InitScale ==
    /\ today = FirstDay
    /\ fn = "getDailyDataOnce"
    /\ hiprecision = FALSE
    /\ start_date = <<FirstYear, 1, 1>>
    /\ stop_date = today
    /\ current = NoDate
    /\ results = <<>>
    /\ pc = "fetched"
    /\ DbIdle
    /\ data_m = <<>>
    /\ data_d = <<>>
    /\ monthly \in SeriesOver(EngMonthStarts, BaseValues)
    /\ daily \in SeriesOver(EngDates, RawValues) \ {<<>>}
    /\ uniformdata = TRUE
    /\ complete = <<>>

\* getDailyDataOnce lines 158-170
ScaleDaily ==
    /\ pc = "fetched"
    /\ complete' = ScaleByMonthly(daily, monthly)
    /\ pc' = "returned"
    /\ UNCHANGED <<today, fn, hiprecision, start_date, stop_date, current, results,
                   dbvars, daily, uniformdata>>

NextScale == ScaleDaily

SpecScale == InitScale /\ [][NextScale]_vars

-----------------------------------------------------------------------------
(* C7, C8                                                                  *)

MonthRows(d) == {e \in DOMAIN daily : SameMonth(e, d)}
MonthMean(d) == MeanOver(daily, MonthRows(d))

\* C7: in the frame getDailyDataOnce returns, at every day of a month with
\* a baseline value and a mean of raw daily values that is not 0, the scale
\* is baseline[month] / mean and the scaled value is raw * scale.
C7_ScaleIsBaselineOverMean ==
    pc = "returned" =>
        \A d \in DOMAIN complete :
            (MonthStart(d) \in DOMAIN monthly /\ MonthMean(d)[1] # 0) =>
                /\ complete[d].scale = Div(monthly[MonthStart(d)], MonthMean(d))
                /\ complete[d].scaled = Mul(daily[d], complete[d].scale)

\* the days of earlier months whose scale is a number
DefinedBefore(d) ==
    {e \in DOMAIN complete :
        /\ DateLT(e, MonthStart(d))
        /\ complete[e].scale \notin {NaN, Inf}}

\* C8: at every day of a month whose raw daily values have mean 0 the
\* scale is no quotient by zero: it is the scale of the latest earlier
\* month that has one, and without such a month the scale and the scaled
\* value are missing.
C8_ZeroMeanScaleForwardFilled ==
    pc = "returned" =>
        \A d \in DOMAIN complete :
            MonthMean(d)[1] = 0 =>
                IF DefinedBefore(d) = {}
                THEN complete[d].scale = NaN /\ complete[d].scaled = NaN
                ELSE LET e == CHOOSE x \in DefinedBefore(d) :
                                  \A y \in DefinedBefore(d) : DateLE(y, x)
                     IN complete[d].scale = complete[e].scale

-----------------------------------------------------------------------------
(* The read of getDailyDataFromDB (SpecRead).                              *)
(*                                                                         *)
(* Here the sheets of the workbook hold values: a sheet is                 *)
(* [index, cols], the set of its dates and the sequence of its columns,    *)
(* each a series over the index with NaN in the cells the pull of the      *)
(* column has no value for.                                                *)

\* the rows a date may have in the stored daily sheet, one cell per pull
DailyRows == {<<Num(6), Num(2), Num(4)>>, <<NaN, Num(0), Num(6)>>}
\* the rows a month may have in the stored monthly sheet; the odd months
\* have one row and the even months one
MonthlyRows == {<<Num(30), Num(10), Num(20)>>, <<Num(20), NaN, Num(10)>>}

NoRow == <<NaN, NaN, NaN>>

\* the sheet with the rows `rows` (a function of dates); a date with no
\* value in any column is no row of the sheet
SheetOfRows(rows) ==
    LET idx == {d \in DOMAIN rows : rows[d] # NoRow}
    IN [index |-> idx,
        cols |-> [i \in 1..Len(NoRow) |-> [d \in idx |-> rows[d][i]]]]

NoSheet == [index |-> {}, cols |-> <<>>]

\* isfile(...) is false, for a read
NoWorkbook == [exists |-> FALSE, monthly |-> NoSheet, has_daily |-> FALSE, daily |-> NoSheet]

\* frame[start_date:stop_date]: the rows of the dates start..stop
Slice(sheet, start, stop) ==
    LET idx == {d \in sheet.index : DateLE(start, d) /\ DateLE(d, stop)}
    IN [index |-> idx,
        cols |-> [i \in 1..Len(sheet.cols) |-> [d \in idx |-> sheet.cols[i][d]]]]

RECURSIVE InsertSorted(_, _)
InsertSorted(x, sorted) ==
    IF sorted = <<>> THEN <<x>>
    ELSE IF Less(sorted[1], x) THEN <<sorted[1]>> \o InsertSorted(x, Tail(sorted))
    ELSE <<x>> \o sorted

RECURSIVE SortValues(_)
SortValues(cells) ==
    IF cells = <<>> THEN <<>> ELSE InsertSorted(cells[1], SortValues(Tail(cells)))

NotMissing(x) == x # NaN

\* the middle of a sequence of values: the mean of the two middle ones
\* when their number is even, missing when there is none
MiddleOf(cells) ==
    LET n == Len(cells)
    IN IF n = 0 THEN NaN
       ELSE IF n % 2 = 1 THEN cells[(n + 1) \div 2]
       ELSE Div(Plus(cells[n \div 2], cells[(n \div 2) + 1]), Num(2))

\* a median that takes the middle cell of the row as the columns stand
Median_Unsorted(cells) == MiddleOf(SelectSeq(cells, NotMissing))

\* Series.median(): the median of the cells that are not missing
Median(cells) == MiddleOf(SortValues(SelectSeq(cells, NotMissing)))

\* lines 250, 254: frame.T.median(): per date, the median over the columns
RowMedian(sheet) ==
    [d \in sheet.index |->
        Median([i \in 1..Len(sheet.cols) |-> sheet.cols[i][d]])]

\* lines 250-266: what getDailyDataFromDB(uniformdata=True) returns
ReadUniform(m_sheet, d_sheet, start, stop) ==
    LET monthly_med == RowMedian(m_sheet)
        daily_med == RowMedian(Slice(d_sheet, start, stop))
        scaled == ScaleByMonthly(daily_med, monthly_med)
    IN [d \in DOMAIN scaled |->
          [monthly |-> scaled[d].monthly, value |-> scaled[d].scaled]]

\* lines 269-282: what getDailyDataFromDB(uniformdata=False) returns
ReadScaled(m_sheet, d_sheet) ==
    LET idx == d_sheet.index
        monthly_med == RowMedian(m_sheet)
        \* lines 269-271: per pull, the monthly means of its daily values
        \* over the monthly medians, on the union of the two indexes
        scale_m(i) ==
            LET dailyaverage == ResampleMean(d_sheet.cols[i])
                midx == (DOMAIN dailyaverage) \cup (DOMAIN monthly_med)
            IN [m \in midx |->
                  Div(Reindex(dailyaverage, midx)[m], Reindex(monthly_med, midx)[m])]
        \* line 273: the scales on the rows of the daily sheet, filled forward
        scale_d(i) == ffill(Reindex(scale_m(i), idx))
        \* line 282
        base == ffill(Reindex(monthly_med, idx))
    IN [d \in idx |->
          [monthly |-> base[d],
           value |-> Median([i \in 1..Len(d_sheet.cols) |->
                                Div(d_sheet.cols[i][d], scale_d(i)[d])])]]

\* lines 322-326: what getMonthlyDataFromDB returns
ReadMonthly(m_sheet) ==
    LET monthly_med == RowMedian(m_sheet)
    IN [m \in m_sheet.index |-> [monthly |-> monthly_med[m]]]

\* an isfile that says yes whatever the path
isfile_Always(f) == TRUE

\* lines 242, 315: isfile(f'{dbpath}/{cat}_{word}_{geo}.xlsx')
isfile(f) == f.exists

\* the days "today" is when the dataset is read
ReadClock == {<<FirstYear, EngMonths, 1>>, <<FirstYear, 12, 31>>}

\* the workbooks a read finds: with both sheets (as buildDatabase writes
\* them) or with the monthly sheet alone (as buildMonthlyDatabase does)
Workbooks ==
    LET m_sheets == {SheetOfRows([m \in EngMonthStarts |-> mrows[m[2] % 2]]) :
                        mrows \in [{0, 1} -> MonthlyRows \cup {NoRow}]}
        d_sheets == {SheetOfRows(drows) :
                        drows \in [EngDates -> DailyRows \cup {NoRow}]}
    IN {[exists |-> TRUE, monthly |-> m, has_daily |-> TRUE, daily |-> d] :
            m \in m_sheets, d \in d_sheets \ {SheetOfRows([x \in EngDates |-> NoRow])}}
       \cup
       {[exists |-> TRUE, monthly |-> m, has_daily |-> FALSE, daily |-> NoSheet] :
            m \in m_sheets}

InitRead ==
    /\ today \in ReadClock
    /\ fn = "getDailyDataFromDB"
    /\ hiprecision = FALSE
    /\ start_date = NoDate
    /\ stop_date = NoDate
    /\ current = NoDate
    /\ results = <<>>
    /\ pc = "idle"
    /\ file \in Workbooks \cup {NoWorkbook}
    /\ file.exists /\ file.has_daily =>
          \E d \in file.daily.index : DateLE(d, today)
    /\ op = "none"
    /\ outcome = "none"
    /\ as_of = NoDate
    /\ prev = "none"
    /\ file0 = file
    /\ timeframe = <<>>
    /\ attempts = 0
    /\ ret = "none"
    /\ ev = NoEvent
    /\ fetches = 0
    /\ sessions = 0
    /\ data_m = NoSheet
    /\ data_d = NoSheet
    /\ monthly = <<>>
    /\ daily = <<>>
    /\ uniformdata = TRUE
    /\ complete = <<>>

\* how a read ends: with no frame read and none returned
EndRead(res) ==
    /\ outcome' = res
    /\ pc' = "returned"
    /\ UNCHANGED <<data_m, data_d, complete>>

\* getDailyDataFromDB lines 239-288, start_year and stop_year the year of
\* the dataset
getDailyDataFromDB(u) ==
    /\ pc = "idle"
    /\ op' = "getDailyDataFromDB"
    /\ uniformdata' = u
    /\ start_date' = <<FirstYear, 1, 1>>
    /\ stop_date' = StopDate(FirstYear, today)
    /\ IF ~isfile(file)
       THEN \* lines 245-247
            EndRead("None")
       ELSE IF ~file.exists
       THEN \* line 243: read_excel of a path that is no file
            EndRead("FileNotFoundError")
       ELSE IF ~file.has_daily
       THEN \* line 244: read_excel finds no sheet named 'daily'
            /\ outcome' = "ValueError"
            /\ pc' = "returned"
            /\ data_m' = Slice(file.monthly, start_date', stop_date')
            /\ UNCHANGED <<data_d, complete>>
       ELSE /\ data_m' = Slice(file.monthly, start_date', stop_date')
            /\ data_d' = Slice(file.daily, start_date', stop_date')
            /\ complete' = IF u THEN ReadUniform(data_m', data_d', start_date', stop_date')
                           ELSE ReadScaled(data_m', data_d')
            /\ outcome' = "frame"
            /\ pc' = "returned"
    /\ UNCHANGED <<today, fn, hiprecision, current, results, file, as_of, prev, file0,
                   monthly, timeframe, attempts, ret, ev, fetches, sessions, daily>>

\* getMonthlyDataFromDB lines 312-326
getMonthlyDataFromDB ==
    /\ pc = "idle"
    /\ op' = "getMonthlyDataFromDB"
    /\ start_date' = <<FirstYear, 1, 1>>
    /\ stop_date' = StopDate(FirstYear, today)
    /\ IF ~isfile(file)
       THEN \* lines 317-319
            EndRead("None")
       ELSE IF ~file.exists
       THEN \* line 316: read_excel of a path that is no file
            EndRead("FileNotFoundError")
       ELSE /\ data_m' = Slice(file.monthly, start_date', stop_date')
            /\ complete' = ReadMonthly(data_m')
            /\ outcome' = "frame"
            /\ pc' = "returned"
            /\ UNCHANGED data_d
    /\ UNCHANGED <<today, fn, hiprecision, current, results, file, as_of, prev, file0,
                   monthly, timeframe, attempts, ret, ev, fetches, sessions,
                   daily, uniformdata>>

NextRead ==
    \/ \E u \in BOOLEAN : getDailyDataFromDB(u)
    \/ getMonthlyDataFromDB

SpecRead == InitRead /\ [][NextRead]_vars

-----------------------------------------------------------------------------
(* C9, C10                                                                 *)

\* the median of the values the stored daily columns hold at date d
StoredMedian(d) ==
    Median([i \in 1..Len(file.daily.cols) |-> file.daily.cols[i][d]])

\* the median of the values the stored monthly columns hold at month m
StoredMonthlyMedian(m) ==
    Median([i \in 1..Len(file.monthly.cols) |-> file.monthly.cols[i][m]])

\* the stored daily dates of the requested range
RequestedRows ==
    {d \in file.daily.index : DateLE(start_date, d) /\ DateLE(d, stop_date)}

\* the mean, over the requested rows of the month of d, of the medians
MedianMonthMean(d) ==
    MeanOver([e \in file.daily.index |-> StoredMedian(e)],
             {e \in RequestedRows : SameMonth(e, d)})

ScaledMonth(d) ==
    /\ MonthStart(d) \in RequestedRows
    /\ MonthStart(d) \in file.monthly.index
    /\ MedianMonthMean(d)[1] # 0

ColumnOrders(n) ==
    {p \in [1..n -> 1..n] : \A i \in 1..n, j \in 1..n : p[i] = p[j] => i = j}

\* the sheet with its columns in the order p
PermuteCols(sheet, p) ==
    [sheet EXCEPT !.cols = [i \in 1..Len(sheet.cols) |-> sheet.cols[p[i]]]]

\* what the read returns from the workbook with its sheets m_sheet, d_sheet
ReadOf(m_sheet, d_sheet) ==
    ReadUniform(Slice(m_sheet, start_date, stop_date),
                Slice(d_sheet, start_date, stop_date), start_date, stop_date)

\* C10: the frame returned with uniformdata=True (the daily and the monthly
\* series) is the one the read returns from the workbook with the columns
\* of its daily sheet, or of its monthly sheet, in any other order.
C10_ColumnOrderIrrelevant ==
    (pc = "returned" /\ outcome = "frame" /\ op = "getDailyDataFromDB" /\ uniformdata) =>
        /\ \A p \in ColumnOrders(Len(file.daily.cols)) :
              ReadOf(file.monthly, PermuteCols(file.daily, p)) = complete
        /\ \A p \in ColumnOrders(Len(file.monthly.cols)) :
              ReadOf(PermuteCols(file.monthly, p), file.daily) = complete

\* a read of a dataset with a row whose three pulls differ and are not in
\* increasing order, and a monthly row likewise
C10_Witness ==
    /\ pc = "returned"
    /\ outcome = "frame"
    /\ op = "getDailyDataFromDB"
    /\ uniformdata
    /\ \E d \in DOMAIN complete :
          /\ Less(file.daily.cols[2][d], file.daily.cols[3][d])
          /\ Less(file.daily.cols[3][d], file.daily.cols[1][d])
          /\ complete[d].value \notin {NaN, Inf}
          /\ MonthStart(d) \in file.monthly.index
          /\ file.monthly.cols[2][MonthStart(d)] # NaN
          /\ Less(file.monthly.cols[2][MonthStart(d)], file.monthly.cols[1][MonthStart(d)])

-----------------------------------------------------------------------------
(* The frames of getDailyDataOnce and of the reads together (SpecFrames).  *)

InitFrames == InitScale \/ InitRead

NextFrames == NextScale \/ NextRead

SpecFrames == InitFrames /\ [][NextFrames]_vars

-----------------------------------------------------------------------------
(* C11                                                                     *)

\* the rows of the returned frame whose baseline cell is not missing
BaselinePresent == {d \in DOMAIN complete : complete[d].monthly # NaN}

\* C11: in the frame getDailyDataOnce returns and in the frame
\* getDailyDataFromDB returns, with uniformdata true or false, no row after
\* the first row whose monthly baseline is not missing has a missing
\* baseline.
C11_BaselineForwardFilled ==
    (pc = "returned" /\ op \in {"none", "getDailyDataFromDB"}) =>
        \A d \in DOMAIN complete :
            (\E e \in BaselinePresent : DateLT(e, d)) => d \in BaselinePresent

\* a read with uniformdata=False returned a frame with a row of a month the
\* monthly sheet has no row for, after a row of a month it has one for: the
\* baseline there is the earlier month's
C11_Witness ==
    /\ pc = "returned"
    /\ op = "getDailyDataFromDB"
    /\ ~uniformdata
    /\ outcome = "frame"
    /\ \E d \in DOMAIN complete :
          /\ MonthStart(d) \notin data_m.index
          /\ \E e \in DOMAIN complete :
                /\ DateLT(e, d)
                /\ e \in data_m.index
                /\ complete[e].monthly # NaN
                /\ complete[d].monthly = complete[e].monthly
          /\ complete[d].value \notin {NaN, Inf}

-----------------------------------------------------------------------------
(* C12                                                                     *)

-----------------------------------------------------------------------------
(* C13 .. C16                                                              *)

\* the step is a query of the running _fetchData that the service answers
\* with the rate-limit error
RetryableFailure ==
    /\ pc \in {"build_payload", "interest_over_time"}
    /\ ev' # ev
    /\ ev'.resp = "ResponseError"

\* C13: in a _fetchData call, the n-th rate-limit error (n = 0, 1, ...) is
\* followed by a sleep of 60 + 5*n seconds and a retry with the same
\* timeframe, and the attempt counter never decreases during the call.
C13_BackoffSchedule ==
    [][/\ RetryableFailure =>
             /\ ev'.slept = "backoff"
             /\ ev'.secs = 60 + 5 * attempts
             /\ attempts' = attempts + 1
             /\ timeframe' = timeframe
             /\ pc' = "build_payload"
       /\ (pc \in {"build_payload", "interest_over_time"} /\ pc' # "idle") =>
             attempts' >= attempts]_vars

\* the column a call appended to a sheet
LastColumn(sheet) == sheet[Len(sheet)]

\* C14: the monthly column and the daily column a buildDatabase call added
\* have the same label, the day as_of on which the call evaluated its guard.
C14_OneLabelPerCall ==
    (op = "buildDatabase" /\ outcome = "acquired") =>
        /\ LastColumn(file.monthly).label = as_of
        /\ LastColumn(file.daily).label = as_of

\* C15: after a buildDatabase call that evaluated its guard on day D has
\* returned normally, the monthly sheet and the daily sheet of the workbook
\* both have a column labelled D.
C15_BothSheetsHaveToday ==
    (op = "buildDatabase" /\ outcome \in {"noop", "acquired"}) =>
        /\ HasLabel(file.monthly, as_of)
        /\ file.has_daily
        /\ HasLabel(file.daily, as_of)

\* C16: when a call begins a query after another one, the monthly one
\* included, the pacing sleep has been taken since the answer to that one.
C16_EveryQueryPaced ==
    [][(fetches >= 1 /\ fetches' = fetches + 1) => ev.slept = "pace"]_vars

-----------------------------------------------------------------------------
(* C17, C19                                                                *)

\* the end the chunk that starts at `start` is to have: the last day of
\* the month 7 months after the month of `start` (of that month itself in
\* high precision), or stop_date when that is earlier
ClaimedChunkEnd(start, stop, hip) ==
    MinDate(stop,
            LastDateOfMonth(PlusMonths(MonthStart(start), IF hip THEN 0 ELSE 7)))

\* C17: every chunk _getRawDailyData has issued ends on min(stop_date, last
\* day of the month 7 months after the month of its start) in low precision
\* and on min(stop_date, last day of the month of its start) in high
\* precision; the first chunk starts at start_date and every next one on
\* the day after the end of the one before; and a low-precision run over
\* one whole year Y issues (Y-01-01, Y-08-31) and (Y-09-01, Y-12-31), for
\* the years of the model and for 2020.
C17_ChunkEnds ==
    fn = "_getRawDailyData" =>
        /\ \A i \in 1..Len(results) :
              /\ results[i][2] = ClaimedChunkEnd(results[i][1], stop_date, hiprecision)
              /\ results[i][1] = IF i = 1 THEN start_date
                                 ELSE PlusOneDay(results[i - 1][2])
        /\ results # <<>> => current = PlusOneDay(results[Len(results)][2])
        /\ (/\ pc = "done"
            /\ ~hiprecision
            /\ stop_date = <<start_date[1], 12, 31>>) =>
               results = << <<start_date, <<start_date[1], 8, 31>> >>,
                            << <<start_date[1], 9, 1>>, stop_date>> >>
        /\ RawChunks(<<2020, 1, 1>>, <<2020, 12, 31>>, FALSE) =
               << <<<<2020, 1, 1>>, <<2020, 8, 31>>>>,
                  <<<<2020, 9, 1>>, <<2020, 12, 31>>>> >>

\* a low-precision run has ended whose last chunk was cut at a stop_date
\* inside a month, after a chunk of full length
C17_Witness ==
    /\ pc = "done"
    /\ fn = "_getRawDailyData"
    /\ ~hiprecision
    /\ Len(results) >= 2
    /\ results[Len(results)][2] = stop_date
    /\ stop_date[3] = 15
    /\ results[1][2] = <<start_date[1], 8, 31>>

\* the days from the start of a chunk to its end, both included
DaysSpanned(chunk) == toordinal(chunk[2]) - toordinal(chunk[1]) + 1

\* the calendar months a chunk has days in
MonthsSpanned(chunk) ==
    12 * (chunk[2][1] - chunk[1][1]) + chunk[2][2] - chunk[1][2] + 1

WithinLimit(chunk) == MonthsSpanned(chunk) <= 8 /\ DaysSpanned(chunk) < 270

\* C19: every chunk _getRawDailyData has issued, in low and in high
\* precision, spans at most 8 calendar months and fewer than 270 days;
\* and so does every chunk of a run over two whole years from each of the
\* start years 2004 .. 2008.
C19_ChunkWithinLimit ==
    /\ fn = "_getRawDailyData" =>
          \A i \in 1..Len(results) : WithinLimit(results[i])
    /\ \A y \in FirstYear .. (FirstYear + 4) :
          LET chunks == RawChunks(<<y, 1, 1>>, <<y + 1, 12, 31>>, hiprecision)
          IN \A i \in 1..Len(chunks) : WithinLimit(chunks[i])

\* a low-precision run over a leap year and the next has issued its three
\* chunks of 8 months
C19_Witness ==
    /\ pc = "done"
    /\ fn = "_getRawDailyData"
    /\ ~hiprecision
    /\ isleap(start_date[1])
    /\ Len(results) = 3
    /\ \A i \in 1..3 : MonthsSpanned(results[i]) = 8
    /\ DaysSpanned(results[1]) = 244

-----------------------------------------------------------------------------
(* The dataset writers with calls that go on running (SpecLive).           *)
(*                                                                         *)
(* The service raises the rate-limit error at most MaxAttempts times per   *)
(* build_payload and nothing else; a call that can take a step that is no  *)
(* error of the service takes one in the end.                              *)

\* the steps of a running call other than the errors of the service
CallStep ==
    \/ BuildPayloadOk
    \/ InterestOverTimeOk
    \/ RenameMonthly
    \/ EnterRawDailyData
    \/ FetchChunk
    \/ StoreChunk
    \/ LeaveLoop
    \/ PersistDatabase
    \/ PersistMonthly

NextLive ==
    \/ Tick
    \/ \E hip \in BOOLEAN : CallBuildDatabase(hip)
    \/ CallBuildMonthlyDatabase
    \/ BuildPayloadRaises("ResponseError")
    \/ InterestOverTimeRaises("ResponseError")
    \/ CallStep

SpecLive == Init /\ [][NextLive]_vars /\ WF_vars(CallStep)

-----------------------------------------------------------------------------
(* C18                                                                     *)

\* C18: every iteration of the chunk loop moves the chunk start forward,
\* the chunks queried are no more than the calendar months from start to
\* stop, the retry loop is left only by a success or by an error that is
\* not retryable, and, with a service that rate-limits finitely often and
\* raises nothing else, every _fetchData begun returns and every
\* buildDatabase that began to acquire persists its columns and returns.
C18_AcquisitionEnds ==
    /\ [][(pc = "got_chunk" /\ pc' = "loop") => DateLT(current, current')]_vars
    /\ [](Len(results) <= MonthsSpanned(<<start_date, stop_date>>))
    /\ [][(pc = "build_payload" /\ pc' # "build_payload") =>
              (ev'.resp = "ok" \/ ~Caught(ev'.resp))]_vars
    /\ (pc \in {"build_payload", "interest_over_time"})
          ~> (pc \in {"got_monthly", "got_chunk"})
    /\ (op = "buildDatabase" /\ outcome = "running")
          ~> (op = "buildDatabase" /\ outcome = "acquired")

====
